---- MODULE Spec2Model ----
(***************************************************************************)
(* A model of src/predict.py: the Predictor of the image-refinement        *)
(* service.  One predict request is a sequence of steps over the shared,   *)
(* long-lived Predictor state (the two pipelines, the super-resolution     *)
(* models, the files under /tmp) and the locals of the call.               *)
(*                                                                         *)
(* Third-party calls (PIL, cv2, RealESRGAN, the diffusers pipelines) are   *)
(* modelled by their interface: what they read, what they return (size,    *)
(* colour mode and provenance of an image) and whether they may raise.     *)
(* An image's pixel content is its provenance: the sequence of operations  *)
(* that produced it.                                                       *)
(***************************************************************************)
EXTENDS Integers, Sequences, FiniteSets, TLC

\* ------------------------------------------------------------------ bounds

\* Requests started in one behaviour.
MaxRequests == 2
\* Images one pipeline call may return (outputs.images, line 222).
MaxImages == 2
\* Largest side of an input image of the resize check (SpecResize).
MaxDim == 40

\* ------------------------------------------------------- program constants

\* float(1024), line 74: the target length of the shorter side.
TargetSide == 1024
\* The 64 of line 75: sides are rounded to a multiple of it.
Align == 64
\* self.ESRGAN_models[2], lines 78 and 84: the scale used by predict.
UpscaleFactor == 2

\* SCHEDULERS, lines 23-28: scheduler name -> scheduler class.
SCHEDULERS ==
    [DDIM |-> "DDIMScheduler",
     DPMSolverMultistep |-> "DPMSolverMultistepScheduler",
     K_EULER_ANCESTRAL |-> "EulerAncestralDiscreteScheduler",
     K_EULER |-> "EulerDiscreteScheduler"]

\* choices=SCHEDULERS.keys(), line 160.
SchedulerNames == DOMAIN SCHEDULERS

\* choices of resolution, line 138.
Resolutions == {"original", "1024", "2048"}

\* The request workers.  Two, so that two requests can be in flight at once.
Workers == {"w1", "w2"}

\* --------------------------------------------------------------- images

\* An unbound name, an absent file, an absent argument.
NoImage == [size |-> <<0, 0>>, mode |-> "none", px |-> <<>>]

\* The files callers name as image.
ImageFiles == { [size |-> <<2, 3>>, mode |-> "RGBA", px |-> <<"image">>] }

\* The files callers name as mask: one of the image's size, one not.
MaskFiles ==
    { [size |-> <<2, 3>>, mode |-> "L", px |-> <<"maskA">>],
      [size |-> <<3, 2>>, mode |-> "L", px |-> <<"maskB">>] }

\* The files of the resize check: every size up to MaxDim x MaxDim.
SizedFiles ==
    { [size |-> <<w, h>>, mode |-> "RGB", px |-> <<"file">>] :
        w \in 1..MaxDim, h \in 1..MaxDim }

\* PIL's Image.convert("RGB"), lines 72, 83, 118.
ConvertRGB(img) ==
    [img EXCEPT !.mode = "RGB",
                !.px = IF img.mode = "RGB" THEN @ ELSE Append(@, "convertRGB")]

\* Python 3's round() of the rational num/den (den > 0): to the nearest
\* integer, a tie to the even one.  The operand of line 75 is a float; for
\* sides up to 400 the float's rounding equals the rational's.
PyRound(num, den) ==
    LET fl == num \div den
        twice == 2 * (num % den)
    IN  IF twice < den THEN fl
        ELSE IF twice > den THEN fl + 1
        ELSE IF fl % 2 = 0 THEN fl ELSE fl + 1

Min(a, b) == IF a <= b THEN a ELSE b

\* ConditionSide without the multiplication back by 64.
ConditionSideUnscaled(dim, shorter) ==
    PyRound(dim * TargetSide, shorter * Align)

\* Line 75: int(round(dim * scale_factor / 64)) * 64 with
\* scale_factor = 1024 / min(height, width), line 74.
ConditionSide(dim, shorter) ==
    PyRound(dim * TargetSide, shorter * Align) * Align

\* RealESRGAN.predict of the scale-2 model, lines 78-79.
EsrganPredict(img) ==
    [size |-> <<UpscaleFactor * img.size[1], UpscaleFactor * img.size[2]>>,
     mode |-> "RGB",
     px |-> Append(img.px, "esrgan")]

\* resize_for_condition_image, lines 68-80: the image it returns.
ResizedImage(input_image, resolution) ==
    IF resolution = "original"
    THEN input_image
    ELSE LET width == input_image.size[1]
             height == input_image.size[2]
             shorter == Min(height, width)
             img == [size |-> <<ConditionSide(width, shorter),
                                ConditionSide(height, shorter)>>,
                     mode |-> "RGB",
                     px |-> Append(ConvertRGB(input_image).px, "lanczos")]
         IN  IF resolution = "2048" THEN EsrganPredict(img) ELSE img

\* create_hdr_effect, lines 106-114: an 8-bit RGB image of the same size.
HdrImage(img) ==
    [size |-> img.size, mode |-> "RGB", px |-> Append(img.px, "hdr")]

\* OutPath without the index in the name.
OutPathFixed(i) == "/tmp/out.png"

\* f"/tmp/out-{i}.png", line 223.
OutPath(i) == "/tmp/out-" \o ToString(i) \o ".png"

\* The path load_image copies every input to, line 117.
ImagePath == "/tmp/image.png"

\* The i-th image (from 0) a pipeline call of request id returns.  Its size
\* is the pipeline's choice; no step of predict reads it.
Sample(id, i) ==
    [size |-> <<1, 1>>, mode |-> "RGB", px |-> <<"sample", ToString(id), ToString(i)>>]

\* ---------------------------------------------------------------- state

VARIABLES
    pc,             \* each worker's position in predict
    req,            \* each worker's request parameters
    loc,            \* each worker's locals of predict
    pipes,          \* self.img2img_pipe and self.inpaint_pipe
    ESRGAN_models,  \* self.ESRGAN_models
    fs,             \* the files under /tmp the program writes
    nreq,           \* requests started so far
    obs,            \* per request: what has been observed of it so far
    returned        \* the responses given so far, in order

vars == <<pc, req, loc, pipes, ESRGAN_models, fs, nreq, obs, returned>>

\* The scheduler object a pipeline holds: its class, the configuration it
\* was built from, and the request that created it (0: setup).
NewScheduler(cls, config, id) == [cls |-> cls, config |-> config, id |-> id]

\* SCHEDULERS[scheduler].from_config(pipe.scheduler.config), line 218.
FromConfig(name, config, id) == NewScheduler(SCHEDULERS[name], config, id)

NoArgs == [k \in {} |-> NoImage]

NoReq ==
    [id |-> 0, image |-> NoImage, mask |-> NoImage, resolution |-> "original",
     scheduler |-> "DDIM"]

\* The locals of a call that has bound nothing yet.
NoLocals ==
    [generator |-> FALSE, loaded_image |-> NoImage, control_image |-> NoImage,
     final_image |-> NoImage, mask_image |-> NoImage, pipe |-> "none",
     args |-> NoArgs, outputs |-> <<>>, output_paths |-> <<>>]

NoCall ==
    [made |-> FALSE, pipe |-> "none", scheduler |-> NewScheduler("none", "none", 0),
     safety_checker |-> "none", args |-> NoArgs, images |-> <<>>]

\* What setup leaves in a pipeline, lines 46-56: the scheduler and the safety
\* checker that from_pretrained builds from the stored weights.
LoadedPipes ==
    [img2img_pipe |-> [scheduler |-> NewScheduler("FromPretrained", "weights", 0),
                       safety_checker |-> "FromPretrained", xformers |-> FALSE],
     inpaint_pipe |-> [scheduler |-> NewScheduler("FromPretrained", "inpaint-cache", 0),
                       safety_checker |-> "FromPretrained", xformers |-> FALSE]]

\* setup, lines 58-64: the scale-2 and scale-4 super-resolution models.
LoadedESRGAN == [scale \in {2, 4} |-> [scale |-> scale, weights |-> "loaded"]]

\* What has been observed of a request that has just started: nothing but
\* the shared state of the Predictor it starts from.
NewObs(host) ==
    [esrgan_calls |-> 0, call |-> NoCall, emptied_cache |-> FALSE,
     error |-> "none", host |-> host, result |-> <<>>]

\* The shared state of the Predictor: what setup creates, lines 46-64.
Host == [pipes |-> pipes, ESRGAN_models |-> ESRGAN_models]

\* setup, lines 35-66.
Init ==
    /\ pc = [p \in Workers |-> "idle"]
    /\ req = [p \in Workers |-> NoReq]
    /\ loc = [p \in Workers |-> NoLocals]
    /\ pipes = LoadedPipes
    /\ ESRGAN_models = LoadedESRGAN
    /\ fs = [path \in {ImagePath} \cup {OutPath(i) : i \in 0..(MaxImages - 1)} |-> NoImage]
    /\ nreq = 0
    /\ obs = [p \in Workers |-> NewObs(Host)]
    /\ returned = <<>>

\* ------------------------------------------------------------- the steps

Finished(p) == pc[p] \in {"idle", "returned", "raised"}

\* An exception leaves predict: the frame and its locals are dropped, and
\* nothing after the raise runs.
Raise(p) ==
    /\ pc' = [pc EXCEPT ![p] = "raised"]
    /\ loc' = [loc EXCEPT ![p] = NoLocals]

\* predict is called, lines 121-189: the parameters are bound and the
\* generator is seeded.  What was observed of the requests in `delivered`,
\* which have ended, is dropped.
Call(p, images, masks, delivered) ==
    /\ nreq < MaxRequests
    /\ \E image \in images, mask \in masks \cup {NoImage},
          resolution \in Resolutions, scheduler \in SchedulerNames :
          req' = [q \in Workers |->
                    IF q = p
                    THEN [id |-> nreq + 1, image |-> image, mask |-> mask,
                          resolution |-> resolution, scheduler |-> scheduler]
                    ELSE IF q \in delivered THEN NoReq ELSE req[q]]
    /\ nreq' = nreq + 1
    /\ loc' = [loc EXCEPT ![p] = [NoLocals EXCEPT !.generator = TRUE]]
    /\ obs' = [q \in Workers |->
                 IF q = p \/ q \in delivered THEN NewObs(Host) ELSE obs[q]]
    /\ pc' = [q \in Workers |->
                IF q = p THEN "copy_image"
                ELSE IF q \in delivered THEN "idle" ELSE pc[q]]
    /\ UNCHANGED <<pipes, ESRGAN_models, fs, returned>>

\* A request arrives once the one before it has ended.
BeginSerial(p) ==
    /\ \A q \in Workers : Finished(q)
    /\ Call(p, ImageFiles, MaskFiles, Workers \ {p})

\* A request arrives at a worker that has served none, whatever the other
\* worker is doing.  The workers are taken in order.
Begin(p) ==
    /\ pc[p] = "idle"
    /\ p = "w2" => pc["w1"] # "idle"
    /\ Call(p, ImageFiles, MaskFiles, {})

\* A request of the resize check: an image of any size up to the bound, no
\* mask.
BeginSized(p) ==
    /\ p = "w1"
    /\ pc[p] = "idle"
    /\ Call(p, SizedFiles, {}, {})

\* load_image(image), line 117: shutil.copyfile(path, "/tmp/image.png").
CopyImage(p) ==
    /\ pc[p] = "copy_image"
    /\ fs' = [fs EXCEPT ![ImagePath] = req[p].image]
    /\ pc' = [pc EXCEPT ![p] = "load_image"]
    /\ UNCHANGED <<req, loc, pipes, ESRGAN_models, nreq, obs, returned>>

\* load_image(image), line 118, and the assignment of line 190.
LoadImage(p) ==
    /\ pc[p] = "load_image"
    /\ loc' = [loc EXCEPT ![p].loaded_image = ConvertRGB(fs[ImagePath])]
    /\ pc' = [pc EXCEPT ![p] = "resize"]
    /\ UNCHANGED <<req, pipes, ESRGAN_models, fs, nreq, obs, returned>>

\* Line 191: control_image = resize_for_condition_image(loaded_image,
\* resolution); the "2048" tier runs the scale-2 super-resolution model.
ResizeForConditionImage(p) ==
    /\ pc[p] = "resize"
    /\ loc' = [loc EXCEPT ![p].control_image =
                  ResizedImage(loc[p].loaded_image, req[p].resolution)]
    /\ obs' = [obs EXCEPT ![p].esrgan_calls =
                  IF req[p].resolution = "2048" THEN @ + 1 ELSE @]
    /\ pc' = [pc EXCEPT ![p] = "hdr"]
    /\ UNCHANGED <<req, pipes, ESRGAN_models, fs, nreq, returned>>

\* AssembleArgs with line 217 moved up to the selection of the pipeline.
AssembleArgsConfigures(p) ==
    /\ pc[p] = "hdr"
    /\ LET final_image == HdrImage(loc[p].control_image)
           pipe == IF req[p].mask # NoImage THEN "inpaint_pipe" ELSE "img2img_pipe"
       IN  /\ loc' = [loc EXCEPT ![p].final_image = final_image,
                                  ![p].args = [image |-> final_image,
                                               control_image |-> final_image],
                                  ![p].pipe = pipe]
           /\ pipes' = [pipes EXCEPT ![pipe].safety_checker = "None"]
    /\ pc' = [pc EXCEPT ![p] = IF req[p].mask # NoImage
                               THEN "copy_mask" ELSE "safety_checker"]
    /\ UNCHANGED <<req, ESRGAN_models, fs, nreq, obs, returned>>

\* Lines 192-209: final_image = create_hdr_effect(control_image, hdr), the
\* argument dictionary, pipe = self.img2img_pipe and, with a mask,
\* pipe = self.inpaint_pipe.
AssembleArgs(p) ==
    /\ pc[p] = "hdr"
    /\ LET final_image == HdrImage(loc[p].control_image)
       IN  loc' = [loc EXCEPT ![p].final_image = final_image,
                              ![p].args = [image |-> final_image,
                                           control_image |-> final_image],
                              ![p].pipe = IF req[p].mask # NoImage
                                          THEN "inpaint_pipe" ELSE "img2img_pipe"]
    /\ pc' = [pc EXCEPT ![p] = IF req[p].mask # NoImage
                               THEN "copy_mask" ELSE "safety_checker"]
    /\ UNCHANGED <<req, pipes, ESRGAN_models, fs, nreq, obs, returned>>

\* load_image(mask), line 117: the mask is copied to the same path.
CopyMask(p) ==
    /\ pc[p] = "copy_mask"
    /\ fs' = [fs EXCEPT ![ImagePath] = req[p].mask]
    /\ pc' = [pc EXCEPT ![p] = "load_mask"]
    /\ UNCHANGED <<req, loc, pipes, ESRGAN_models, nreq, obs, returned>>

\* LoadMask without line 211.
LoadMaskForgetsArg(p) ==
    /\ pc[p] = "load_mask"
    /\ loc' = [loc EXCEPT ![p].mask_image = ConvertRGB(fs[ImagePath])]
    /\ pc' = [pc EXCEPT ![p] = "validate"]
    /\ UNCHANGED <<req, pipes, ESRGAN_models, fs, nreq, obs, returned>>

\* load_image(mask), line 118, and lines 210-211.
LoadMask(p) ==
    /\ pc[p] = "load_mask"
    /\ LET mask_image == ConvertRGB(fs[ImagePath])
       IN  loc' = [loc EXCEPT ![p].mask_image = mask_image,
                              ![p].args = [image |-> @.image,
                                           control_image |-> @.control_image,
                                           mask_image |-> mask_image]]
    /\ pc' = [pc EXCEPT ![p] = "validate"]
    /\ UNCHANGED <<req, pipes, ESRGAN_models, fs, nreq, obs, returned>>

\* Lines 212-213: raise Exception("Can't upscale and inpaint at the same time").
RaiseUpscaleAndInpaint(p) ==
    /\ pc[p] = "validate"
    /\ req[p].resolution # "original"
    /\ Raise(p)
    /\ obs' = [obs EXCEPT ![p].error = "upscale_and_inpaint"]
    /\ UNCHANGED <<req, pipes, ESRGAN_models, fs, nreq, returned>>

\* Lines 214-215: raise Exception("Image and mask must have the same size").
RaiseSizeMismatch(p) ==
    /\ pc[p] = "validate"
    /\ req[p].resolution = "original"
    /\ loc[p].mask_image.size # loc[p].loaded_image.size
    /\ Raise(p)
    /\ obs' = [obs EXCEPT ![p].error = "size_mismatch"]
    /\ UNCHANGED <<req, pipes, ESRGAN_models, fs, nreq, returned>>

\* MaskAccepted without the comparison of line 214.
MaskAcceptedAnySize(p) ==
    /\ pc[p] = "validate"
    /\ req[p].resolution = "original"
    /\ pc' = [pc EXCEPT ![p] = "safety_checker"]
    /\ UNCHANGED <<req, loc, pipes, ESRGAN_models, fs, nreq, obs, returned>>

\* Lines 212-215, neither condition true.
MaskAccepted(p) ==
    /\ pc[p] = "validate"
    /\ req[p].resolution = "original"
    /\ loc[p].mask_image.size = loc[p].loaded_image.size
    /\ pc' = [pc EXCEPT ![p] = "safety_checker"]
    /\ UNCHANGED <<req, loc, pipes, ESRGAN_models, fs, nreq, obs, returned>>

\* Line 217: pipe.safety_checker = None.
DisableSafetyChecker(p) ==
    /\ pc[p] = "safety_checker"
    /\ pipes' = [pipes EXCEPT ![loc[p].pipe].safety_checker = "None"]
    /\ pc' = [pc EXCEPT ![p] = "scheduler"]
    /\ UNCHANGED <<req, loc, ESRGAN_models, fs, nreq, obs, returned>>

\* SetScheduler that keeps a scheduler an earlier request installed.
SetSchedulerOnce(p) ==
    /\ pc[p] = "scheduler"
    /\ pipes' = [pipes EXCEPT ![loc[p].pipe].scheduler =
                    IF @.id = 0
                    THEN FromConfig(req[p].scheduler, @.config, req[p].id)
                    ELSE @]
    /\ pc' = [pc EXCEPT ![p] = "xformers"]
    /\ UNCHANGED <<req, loc, ESRGAN_models, fs, nreq, obs, returned>>

\* SetScheduler that waits while another request holds the same pipeline
\* between its own replacement and its pipeline call.
SetSchedulerLocked(p) ==
    /\ pc[p] = "scheduler"
    /\ \A q \in Workers \ {p} :
          ~(pc[q] \in {"xformers", "call_pipe"} /\ loc[q].pipe = loc[p].pipe)
    /\ pipes' = [pipes EXCEPT ![loc[p].pipe].scheduler =
                    FromConfig(req[p].scheduler, @.config, req[p].id)]
    /\ pc' = [pc EXCEPT ![p] = "xformers"]
    /\ UNCHANGED <<req, loc, ESRGAN_models, fs, nreq, obs, returned>>

\* Line 218: pipe.scheduler = SCHEDULERS[scheduler].from_config(pipe.scheduler.config).
SetScheduler(p) ==
    /\ pc[p] = "scheduler"
    /\ pipes' = [pipes EXCEPT ![loc[p].pipe].scheduler =
                    FromConfig(req[p].scheduler, @.config, req[p].id)]
    /\ pc' = [pc EXCEPT ![p] = "xformers"]
    /\ UNCHANGED <<req, loc, ESRGAN_models, fs, nreq, obs, returned>>

\* Line 219: pipe.enable_xformers_memory_efficient_attention().
EnableXformers(p) ==
    /\ pc[p] = "xformers"
    /\ pipes' = [pipes EXCEPT ![loc[p].pipe].xformers = TRUE]
    /\ pc' = [pc EXCEPT ![p] = "call_pipe"]
    /\ UNCHANGED <<req, loc, ESRGAN_models, fs, nreq, obs, returned>>

\* What the pipeline call of line 220 is made with: the pipeline as it is
\* at that moment, and the arguments.
CallMade(p) ==
    [made |-> TRUE, pipe |-> loc[p].pipe,
     scheduler |-> pipes[loc[p].pipe].scheduler,
     safety_checker |-> pipes[loc[p].pipe].safety_checker,
     args |-> loc[p].args, images |-> <<>>]

\* Line 220: outputs = pipe(**args) returns its images.
CallPipe(p) ==
    /\ pc[p] = "call_pipe"
    /\ \E n \in 1..MaxImages :
          LET images == [i \in 1..n |-> Sample(req[p].id, i - 1)]
          IN  /\ loc' = [loc EXCEPT ![p].outputs = images]
              /\ obs' = [obs EXCEPT ![p].call = [CallMade(p) EXCEPT !.images = images]]
    /\ pc' = [pc EXCEPT ![p] = "save"]
    /\ UNCHANGED <<req, pipes, ESRGAN_models, fs, nreq, returned>>

\* Line 220: the pipeline call raises (out of device memory, bad arguments).
CallPipeRaises(p) ==
    /\ pc[p] = "call_pipe"
    /\ Raise(p)
    /\ obs' = [obs EXCEPT ![p].call = CallMade(p), ![p].error = "inference"]
    /\ UNCHANGED <<req, pipes, ESRGAN_models, fs, nreq, returned>>

\* SaveSample that leaves a file that already exists as it is.
SaveSampleOnce(p) ==
    /\ pc[p] = "save"
    /\ Len(loc[p].output_paths) < Len(loc[p].outputs)
    /\ LET i == Len(loc[p].output_paths)
           output_path == OutPath(i)
       IN  /\ fs' = [fs EXCEPT ![output_path] =
                        IF @ = NoImage THEN loc[p].outputs[i + 1] ELSE @]
           /\ loc' = [loc EXCEPT ![p].output_paths = Append(@, output_path)]
    /\ UNCHANGED <<pc, req, pipes, ESRGAN_models, nreq, obs, returned>>

\* Lines 222-225, one turn of the loop: i is the number of paths so far.
SaveSample(p) ==
    /\ pc[p] = "save"
    /\ Len(loc[p].output_paths) < Len(loc[p].outputs)
    /\ LET i == Len(loc[p].output_paths)
           output_path == OutPath(i)
       IN  /\ fs' = [fs EXCEPT ![output_path] = loc[p].outputs[i + 1]]
           /\ loc' = [loc EXCEPT ![p].output_paths = Append(@, output_path)]
    /\ UNCHANGED <<pc, req, pipes, ESRGAN_models, nreq, obs, returned>>

\* Lines 228-236: the del statements, torch.cuda.empty_cache() and
\* return output_paths.
CleanupAndReturn(p) ==
    /\ pc[p] = "save"
    /\ Len(loc[p].output_paths) = Len(loc[p].outputs)
    /\ obs' = [obs EXCEPT ![p].emptied_cache = TRUE,
                          ![p].result = loc[p].output_paths]
    /\ returned' = Append(returned, [id |-> req[p].id, paths |-> loc[p].output_paths,
                                      images |-> loc[p].outputs])
    /\ loc' = [loc EXCEPT ![p] = NoLocals]
    /\ pc' = [pc EXCEPT ![p] = "returned"]
    /\ UNCHANGED <<req, pipes, ESRGAN_models, fs, nreq>>

\* One step of a request in flight.
Step(p) ==
    \/ CopyImage(p)
    \/ LoadImage(p)
    \/ ResizeForConditionImage(p)
    \/ AssembleArgs(p)
    \/ CopyMask(p)
    \/ LoadMask(p)
    \/ RaiseUpscaleAndInpaint(p)
    \/ RaiseSizeMismatch(p)
    \/ MaskAccepted(p)
    \/ DisableSafetyChecker(p)
    \/ SetScheduler(p)
    \/ EnableXformers(p)
    \/ CallPipe(p)
    \/ CallPipeRaises(p)
    \/ SaveSample(p)
    \/ CleanupAndReturn(p)

\* Requests are served one at a time.
Next == \E p \in Workers : BeginSerial(p) \/ Step(p)

Spec == Init /\ [][Next]_vars

\* Requests may overlap: nothing in predict keeps a second call out.
NextConcurrent == \E p \in Workers : Begin(p) \/ Step(p)

SpecConcurrent == Init /\ [][NextConcurrent]_vars

\* The first steps of a request, up to the conditioning image, over images
\* of every size up to MaxDim x MaxDim.
NextResize ==
    \E p \in Workers :
        \/ BeginSized(p)
        \/ CopyImage(p)
        \/ LoadImage(p)
        \/ ResizeForConditionImage(p)

SpecResize == Init /\ [][NextResize]_vars

\* --------------------------------------------------------------- claims

Ended(p) == pc[p] \in {"returned", "raised"}

\* The request names a mask that predict must reject: with an upscaling
\* resolution, or of another size than the image.
Rejectable(r) ==
    /\ r.mask # NoImage
    /\ r.resolution # "original" \/ r.mask.size # r.image.size

ValidationErrors == {"upscale_and_inpaint", "size_mismatch"}

\* The positions of predict after the mask checks of lines 212-215.
PastValidation == {"safety_checker", "scheduler", "xformers", "call_pipe", "save", "returned"}

\* The conditioning image predict is to build from the request's image.
ExpectedFinalImage(r) == HdrImage(ResizedImage(ConvertRGB(r.image), r.resolution))

OtherPipe(pipe) == IF pipe = "img2img_pipe" THEN "inpaint_pipe" ELSE "img2img_pipe"

\* C1: a request with a mask and a resolution other than "original", or
\* with a mask of another size than the image, never gets past the mask
\* checks: it makes no pipeline call, returns no path, and when it has
\* ended it has ended in a validation error.
C1_MaskRejected ==
    \A p \in Workers :
        (req[p].id # 0 /\ Rejectable(req[p])) =>
            /\ pc[p] \notin PastValidation
            /\ ~obs[p].call.made
            /\ obs[p].result = <<>>
            /\ Ended(p) => (pc[p] = "raised" /\ obs[p].error \in ValidationErrors)

\* A request with a mask of another size than the image has been rejected.
C1_Witness ==
    \E p \in Workers :
        /\ pc[p] = "raised"
        /\ obs[p].error = "size_mismatch"
        /\ req[p].mask.size # req[p].image.size
        /\ req[p].resolution = "original"

\* C2: when a validation error is raised, no GPU model has been invoked for
\* the request: neither a pipeline nor the scale-2 super-resolution model.
C2_NoGpuWorkBeforeValidationError ==
    \A p \in Workers :
        (pc[p] = "raised" /\ obs[p].error \in ValidationErrors) =>
            /\ ~obs[p].call.made
            /\ obs[p].esrgan_calls = 0

\* C3: every request that has ended, by a return or by an exception, has
\* run the cleanup: the device memory cache was emptied.
C3_CleanupOnEveryPath ==
    \A p \in Workers : Ended(p) => obs[p].emptied_cache

\* C4: with requests served one at a time, the pipeline call of a request
\* is made on a pipeline whose safety checker is None and whose scheduler
\* is an object of the class the request's scheduler name maps to, created
\* by this request.
C4_OwnSchedulerAtCall ==
    \A p \in Workers :
        /\ pc[p] = "call_pipe" =>
              /\ pipes[loc[p].pipe].safety_checker = "None"
              /\ pipes[loc[p].pipe].scheduler.cls = SCHEDULERS[req[p].scheduler]
              /\ pipes[loc[p].pipe].scheduler.id = req[p].id
        /\ obs[p].call.made =>
              /\ obs[p].call.safety_checker = "None"
              /\ obs[p].call.scheduler.cls = SCHEDULERS[req[p].scheduler]
              /\ obs[p].call.scheduler.id = req[p].id

\* A request has made its pipeline call on a pipeline that an earlier
\* request had left with a scheduler of another class.
C4_Witness ==
    \E p \in Workers :
        /\ obs[p].call.made
        /\ obs[p].host.pipes[obs[p].call.pipe].scheduler.id # 0
        /\ obs[p].host.pipes[obs[p].call.pipe].scheduler.cls # obs[p].call.scheduler.cls

\* C5: nothing in predict keeps one request's scheduler replacement out
\* while another request on the same pipeline is between its own
\* replacement and its pipeline call: the replacement step is enabled.
C5_ReplacementNeverBlocked ==
    \A p \in Workers : \A q \in Workers \ {p} :
        (/\ pc[p] \in {"xformers", "call_pipe"}
         /\ pc[q] = "scheduler"
         /\ loc[q].pipe = loc[p].pipe) => ENABLED SetScheduler(q)

\* Two requests on the same pipeline with different schedulers, and one has
\* made its pipeline call with the scheduler the other one installed.
C5_Witness ==
    \E p \in Workers : \E q \in Workers \ {p} :
        /\ obs[p].call.made
        /\ obs[q].call.pipe = obs[p].call.pipe \/ loc[q].pipe = obs[p].call.pipe
        /\ req[q].scheduler # req[p].scheduler
        /\ obs[p].call.scheduler.cls = SCHEDULERS[req[q].scheduler]
        /\ obs[p].call.scheduler.id = req[q].id

\* C6: with requests served one at a time, a request rejected with a
\* validation error leaves the shared state of the Predictor (both
\* pipelines, the super-resolution models) as it was when the request
\* started.
C6_RejectionLeavesHost ==
    \A p \in Workers :
        (pc[p] = "raised" /\ obs[p].error \in ValidationErrors) => Host = obs[p].host

\* A request has been rejected on a Predictor that still has the safety
\* checker of its inpaint pipeline, after an earlier request configured the
\* other pipeline.
C6_Witness ==
    \E p \in Workers :
        /\ pc[p] = "raised"
        /\ obs[p].error \in ValidationErrors
        /\ pipes["inpaint_pipe"].safety_checker # "None"
        /\ pipes["img2img_pipe"].scheduler.id # 0

\* C7: the pipeline call is made on the img2img pipeline without a mask
\* argument when the request has no mask, on the inpaint pipeline with the
\* loaded mask when it has one; image and control_image are both the
\* HDR-blended conditioning image; the other pipeline is not the one
\* called and is as it was when the request started.
C7_PipelineByMask ==
    \A p \in Workers :
        obs[p].call.made =>
            /\ req[p].mask = NoImage =>
                  /\ obs[p].call.pipe = "img2img_pipe"
                  /\ DOMAIN obs[p].call.args = {"image", "control_image"}
            /\ req[p].mask # NoImage =>
                  /\ obs[p].call.pipe = "inpaint_pipe"
                  /\ DOMAIN obs[p].call.args = {"image", "control_image", "mask_image"}
                  /\ obs[p].call.args.mask_image = ConvertRGB(req[p].mask)
            /\ obs[p].call.args.image = ExpectedFinalImage(req[p])
            /\ obs[p].call.args.control_image = obs[p].call.args.image
            /\ pipes[OtherPipe(obs[p].call.pipe)]
                  = obs[p].host.pipes[OtherPipe(obs[p].call.pipe)]

\* A request with a mask has made its call on the inpaint pipeline, after
\* an earlier request configured the img2img pipeline.
C7_Witness ==
    \E p \in Workers :
        /\ obs[p].call.made
        /\ req[p].mask # NoImage
        /\ obs[p].call.pipe = "inpaint_pipe"
        /\ pipes["img2img_pipe"].scheduler.id # 0

\* C8: with requests served one at a time, a request that has returned has
\* returned as many paths as the pipeline call produced images, the file at
\* the i-th path is the i-th image, and the paths are pairwise distinct.
C8_PathsHoldImages ==
    \A p \in Workers :
        pc[p] = "returned" =>
            /\ Len(obs[p].result) = Len(obs[p].call.images)
            /\ \A i \in 1..Len(obs[p].result) :
                  fs[obs[p].result[i]] = obs[p].call.images[i]
            /\ \A i \in 1..Len(obs[p].result) : \A j \in 1..Len(obs[p].result) :
                  i # j => obs[p].result[i] # obs[p].result[j]

\* A request has returned more than one path.
C8_Witness ==
    \E p \in Workers : pc[p] = "returned" /\ Len(obs[p].result) >= 2

\* C9: the conditioning image of resolution "1024" has a width and a height
\* that are positive multiples of 64, that of "2048" the same sides taken
\* through the scale-2 model, and that of "original" the size of the
\* loaded image.
C9_ConditionSize ==
    \A p \in Workers :
        pc[p] = "hdr" =>
            LET input == loc[p].loaded_image
                out == loc[p].control_image
                shorter == Min(input.size[1], input.size[2])
                width == ConditionSide(input.size[1], shorter)
                height == ConditionSide(input.size[2], shorter)
            IN  /\ input.size[1] >= 1 /\ input.size[2] >= 1
                /\ req[p].resolution = "original" => out.size = input.size
                /\ req[p].resolution # "original" =>
                      /\ width > 0 /\ width % 64 = 0
                      /\ height > 0 /\ height % 64 = 0
                /\ req[p].resolution = "1024" => out.size = <<width, height>>
                /\ req[p].resolution = "2048" => out.size = <<2 * width, 2 * height>>

\* A 3 x 4 image has been resized for resolution "1024": the longer side
\* is rounded down to 1344.
C9_Witness ==
    \E p \in Workers :
        /\ pc[p] = "hdr"
        /\ req[p].resolution = "1024"
        /\ loc[p].loaded_image.size = <<3, 4>>
        /\ loc[p].control_image.size = <<1024, 1344>>

\* The last response that has an i-th path, if any: its index in returned.
LastWith(i) ==
    LET has == { k \in 1..Len(returned) : Len(returned[k].paths) >= i }
    IN  CHOOSE k \in has : \A m \in has : m <= k

\* C10: between requests, the i-th path of every response given so far is
\* the same file, and it holds the i-th image of the most recent response
\* that has an i-th image.
C10_PathsShared ==
    (\A q \in Workers : Finished(q)) =>
        \A k \in 1..Len(returned) : \A i \in 1..Len(returned[k].paths) :
            /\ returned[k].paths[i] = returned[LastWith(i)].paths[i]
            /\ fs[returned[k].paths[i]] = returned[LastWith(i)].images[i]

\* Two responses, the first with two images and the second with one: the
\* first response's first path now holds the second response's image, its
\* second path still its own.
C10_Witness ==
    /\ \A q \in Workers : Finished(q)
    /\ Len(returned) = 2
    /\ Len(returned[1].paths) = 2
    /\ Len(returned[2].paths) = 1
    /\ fs[returned[1].paths[1]] = returned[2].images[1]
    /\ fs[returned[1].paths[1]] # returned[1].images[1]
    /\ fs[returned[1].paths[2]] = returned[1].images[2]

====
